---- MODULE Spec2Model ----
(***************************************************************************)
(* Model of the university management backend: the tables estudiante,      *)
(* curso and matricula (models.py), the operations of crud.py on them, and *)
(* the field validators of the models.                                      *)
(*                                                                         *)
(* Strings whose content a validator inspects (cedula, email, codigo,      *)
(* horario) are sequences of one-character strings, so that the regular    *)
(* expressions and strip() are computed character by character.            *)
(***************************************************************************)
EXTENDS Integers, Sequences, FiniteSets, Bags, TLC

VARIABLES
    estudiante,     \* table estudiante: id -> [cedula, nombre, email, semestre]
    curso,          \* table curso: id -> [codigo, nombre, creditos, horario]
    matricula,      \* table matricula: bag of rows [estudiante_id, curso_id]
    last,           \* the last crud call run to completion and its outcome
    req             \* per concurrent request: its position inside a crud call

vars == <<estudiante, curso, matricula, last, req>>

----------------------------------------------------------------------------
(* Bounds of the model *)

MaxEstudiantes == 2
MaxCursos == 2
MaxMatriculas == 2

EstudianteIds == 1..MaxEstudiantes
CursoIds == 1..MaxCursos

----------------------------------------------------------------------------
(* Character classes of the regular expressions *)

AsciiDigits == {"0", "1", "2", "3", "4", "5", "6", "7", "8", "9"}

\* \d on a str pattern matches every Unicode decimal digit; "u0663" stands for
\* the one-character string ARABIC-INDIC DIGIT THREE.
ReDigit == AsciiDigits \cup {"u0663"}

UpperLetters == {"A", "B", "C", "D", "E", "F", "G", "H", "I", "J", "K", "L", "M",
                 "N", "O", "P", "Q", "R", "S", "T", "U", "V", "W", "X", "Y", "Z"}

LowerLetters == {"a", "b", "c", "d", "e", "f", "g", "h", "i", "j", "k", "l", "m",
                 "n", "o", "p", "q", "r", "s", "t", "u", "v", "w", "x", "y", "z"}

Letters == UpperLetters \cup LowerLetters

EmailLocal == Letters \cup AsciiDigits \cup {".", "_", "%", "+", "-"}

EmailDomain == Letters \cup AsciiDigits \cup {".", "-"}

Whitespace == {" ", "\t", "\n", "\r", "\f"}

\* All of s[a..b] is in class cls.
AllIn(s, a, b, cls) == \A i \in a..b : s[i] \in cls

\* '$' without re.MULTILINE: position n (characters consumed) is the end of
\* the string, or is just before a newline that is the last character.
AtDollar(s, n) ==
    \/ n = Len(s)
    \/ n = Len(s) - 1 /\ s[Len(s)] = "\n"

----------------------------------------------------------------------------
(* Validators *)

CedulaMinLen == 8
CedulaMaxLen == 10

\* re.match(r'^\d{8,10}$', valor)
validar_cedula(valor) ==
    \E n \in CedulaMinLen..CedulaMaxLen :
        /\ n <= Len(valor)
        /\ AllIn(valor, 1, n, ReDigit)
        /\ AtDollar(valor, n)

TldMinLen == 2

\* re.match(r'^[a-zA-Z0-9._%+-]+@[a-zA-Z0-9.-]+\.[a-zA-Z]{2,}$', valor)
validar_email(valor) ==
    \E a \in 2..Len(valor) :
        /\ valor[a] = "@"
        /\ AllIn(valor, 1, a - 1, EmailLocal)
        /\ \E d \in (a + 2)..Len(valor) :
               /\ valor[d] = "."
               /\ AllIn(valor, a + 1, d - 1, EmailDomain)
               /\ \E n \in (d + TldMinLen)..Len(valor) :
                      /\ AllIn(valor, d + 1, n, Letters)
                      /\ AtDollar(valor, n)

CodigoLetras == 3
CodigoDigitos == 3

\* re.match(r'^[A-Z]{3}\d{3}$', valor)
validar_codigo(valor) ==
    /\ Len(valor) >= CodigoLetras + CodigoDigitos
    /\ AllIn(valor, 1, CodigoLetras, UpperLetters)
    /\ AllIn(valor, CodigoLetras + 1, CodigoLetras + CodigoDigitos, ReDigit)
    /\ AtDollar(valor, CodigoLetras + CodigoDigitos)

RECURSIVE lstrip(_)
lstrip(s) == IF s # <<>> /\ Head(s) \in Whitespace THEN lstrip(Tail(s)) ELSE s

RECURSIVE rstrip(_)
rstrip(s) ==
    IF s # <<>> /\ s[Len(s)] \in Whitespace
    THEN rstrip(SubSeq(s, 1, Len(s) - 1))
    ELSE s

\* valor.strip()
strip(s) == rstrip(lstrip(s))

HorarioMinLen == 5

\* validar_horario: raises when the stripped value is shorter than 5 ...
validar_horario(valor) == Len(strip(valor)) >= HorarioMinLen

\* ... and returns the stripped value otherwise.
horario_limpio(valor) == strip(valor)

SemestreMin == 1
SemestreMax == 12
CreditosMin == 1
CreditosMax == 6

\* Field(ge=1, le=12)
validar_semestre(valor) == valor >= SemestreMin /\ valor <= SemestreMax

\* Field(ge=1, le=6)
validar_creditos(valor) == valor >= CreditosMin /\ valor <= CreditosMax

\* Construction of an Estudiante from request data: every field validator runs.
EstudianteValido(e) ==
    /\ validar_cedula(e.cedula)
    /\ validar_email(e.email)
    /\ validar_semestre(e.semestre)

\* The validator of the field cedula run on a value, as the construction of
\* an Estudiante runs it: it returns the value or raises ValueError.
validar_campo_cedula(valor) ==
    /\ last' = [op |-> "validar_cedula", est |-> 0, cur |-> 0, data |-> valor,
                res |-> IF validar_cedula(valor) THEN "ok" ELSE "ValueError"]
    /\ UNCHANGED <<estudiante, curso, matricula, req>>

\* Construction of a Curso from request data: every field validator runs.
CursoValido(c) ==
    /\ validar_codigo(c.codigo)
    /\ validar_creditos(c.creditos)
    /\ validar_horario(c.horario)

\* The Curso object that construction yields: horario is replaced by the
\* validator's return value.
CursoConstruido(c) == [c EXCEPT !.horario = horario_limpio(c.horario)]

----------------------------------------------------------------------------
(* Tables *)

\* A row of matricula without its surrogate key.
Fila(estudiante_id, curso_id) ==
    [estudiante_id |-> estudiante_id, curso_id |-> curso_id]

\* Copias with the two columns of the WHERE clause exchanged.
Copias_invertida(estudiante_id, curso_id) ==
    CopiesIn(Fila(curso_id, estudiante_id), matricula)

\* Number of matricula rows for the pair.
Copias(estudiante_id, curso_id) == CopiesIn(Fila(estudiante_id, curso_id), matricula)

\* select(Curso).join(Matricula).where(Matricula.estudiante_id == estudiante_id):
\* the join is on curso.id = matricula.curso_id, so only existing courses appear.
cursos_matriculados(estudiante_id) ==
    {c \in DOMAIN curso : Copias(estudiante_id, c) > 0}

\* The relationship Curso.estudiantes, loaded through the link table.
estudiantes_matriculados(curso_id) ==
    {e \in DOMAIN estudiante : Copias(e, curso_id) > 0}

\* Variants of the queries below, each with one slip.
cedula_existente_nunca(cedula, excluido) == FALSE

cedula_existente_email(cedula, excluido) ==
    \E i \in DOMAIN estudiante \ excluido : estudiante[i].email = cedula

cedula_existente_sin_excluir(cedula, excluido) ==
    \E i \in DOMAIN estudiante : estudiante[i].cedula = cedula

ya_matriculado_nunca(estudiante_id, curso_id) == FALSE

ya_matriculado_estudiante(estudiante_id, curso_id) ==
    \E f \in BagToSet(matricula) : f.estudiante_id = estudiante_id

ya_matriculado_invertido(estudiante_id, curso_id) ==
    CopiesIn([estudiante_id |-> curso_id, curso_id |-> estudiante_id], matricula) > 0

conflicto_horario_codigo(estudiante_id, curso_id) ==
    \E c \in DOMAIN curso :
        /\ CopiesIn([estudiante_id |-> estudiante_id, curso_id |-> c], matricula) > 0
        /\ curso[c].codigo = curso[curso_id].codigo

\* select(Estudiante).where(cedula == ..., id != ...).first() finds a row;
\* excluido is empty where the query has no id condition.
cedula_existente(cedula, excluido) ==
    \E i \in DOMAIN estudiante \ excluido : estudiante[i].cedula = cedula

\* select(Curso).where(codigo == ..., id != ...).first() finds a row.
codigo_existente(codigo, excluido) ==
    \E i \in DOMAIN curso \ excluido : curso[i].codigo = codigo

\* The UNIQUE index on estudiante.cedula (unique=True) rejects an INSERT or
\* UPDATE that would give the cedula to a second row.
cedula_unique_violada(cedula, excluido) == cedula_existente(cedula, excluido)

\* The UNIQUE index on curso.codigo (unique=True), likewise.
codigo_unique_violado(codigo, excluido) == codigo_existente(codigo, excluido)

\* What the table matricula rejects at INSERT on account of the pair: the
\* model Matricula declares its primary key id and two foreign keys, and no
\* unique constraint over (estudiante_id, curso_id).
matricula_unique_violada(estudiante_id, curso_id) == FALSE

\* select(Matricula).where(estudiante_id == ..., curso_id == ...).first()
\* finds a row.
ya_matriculado(estudiante_id, curso_id) == Copias(estudiante_id, curso_id) > 0

\* The horario check of matricular_estudiante: some course the student is
\* enrolled in has the same horario string as the new course.
conflicto_horario(estudiante_id, curso_id) ==
    \E curso_mat \in cursos_matriculados(estudiante_id) :
        curso[curso_mat].horario = curso[curso_id].horario

\* The table without the row of key id.
SinFila(tabla, id) == [i \in DOMAIN tabla \ {id} |-> tabla[i]]

\* Deletion of link rows by the many-to-many relationship: one
\* DELETE ... WHERE estudiante_id = ? AND curso_id = ? per loaded pair.
SinEnlaces(pares) ==
    [f \in {g \in BagToSet(matricula) : g \notin pares} |-> matricula[f]]

\* Aplicar with a slip: the loop also resets a column the dictionary omits.
Aplicar_borra_nombre(fila, data) ==
    [k \in DOMAIN fila |-> IF k \in DOMAIN data THEN data[k]
                           ELSE IF k = "nombre" THEN "" ELSE fila[k]]

\* for key, value in data.items(): setattr(obj, key, value), on the columns
\* other than the primary key.
Aplicar(fila, data) ==
    [k \in DOMAIN fila |-> IF k \in DOMAIN data THEN data[k] ELSE fila[k]]

\* The primary key after the setattr loop.
NuevoId(id, data) == IF "id" \in DOMAIN data THEN data["id"] ELSE id

\* foreign_key="estudiante.id" / "curso.id", declared without ON UPDATE: an
\* engine that enforces the constraint rejects a new primary key for a row
\* that matricula references.
clave_foranea_violada(id_cambia, referenced) == id_cambia /\ referenced

\* The outcome of a crud call: what it returned or raised.
Outcome(op, res, est, cur, data) ==
    [op |-> op, res |-> res, est |-> est, cur |-> cur, data |-> data]

NoData == <<>>

\* The requests served at the same time, each with its own session.
Procs == {"r1", "r2"}

\* frames counts the frames of the request's handler on the call stack.
Request(pc, op, est, cur, data, res) ==
    [pc |-> pc, op |-> op, est |-> est, cur |-> cur, data |-> data, res |-> res,
     frames |-> 0]

Idle == Request("idle", "none", 0, 0, NoData, "none")

Init ==
    /\ estudiante = <<>>
    /\ curso = <<>>
    /\ matricula = EmptyBag
    /\ last = Outcome("none", "none", 0, 0, NoData)
    /\ req = [p \in Procs |-> Idle]

----------------------------------------------------------------------------
(* Entity store: estudiantes *)

crear_estudiante(e) ==
    /\ UNCHANGED req
    /\ IF ~EstudianteValido(e) THEN
           /\ last' = Outcome("crear_estudiante", "ValidationError", 0, 0, e)
           /\ UNCHANGED <<estudiante, curso, matricula>>
       ELSE IF cedula_existente(e.cedula, {}) THEN
           /\ last' = Outcome("crear_estudiante", "ValueError_cedula", 0, 0, e)
           /\ UNCHANGED <<estudiante, curso, matricula>>
       ELSE IF cedula_unique_violada(e.cedula, {}) THEN
           /\ last' = Outcome("crear_estudiante", "IntegrityError", 0, 0, e)
           /\ UNCHANGED <<estudiante, curso, matricula>>
       ELSE
           \E id \in EstudianteIds \ DOMAIN estudiante :
               /\ estudiante' = estudiante @@ (id :> e)
               /\ last' = Outcome("crear_estudiante", "ok", id, 0, e)
               /\ UNCHANGED <<curso, matricula>>

actualizar_estudiante(estudiante_id, estudiante_data) ==
    /\ UNCHANGED req
    /\ LET nuevo_id == NuevoId(estudiante_id, estudiante_data)
           referenced == \E f \in BagToSet(matricula) : f.estudiante_id = estudiante_id
           op == "actualizar_estudiante"
       IN
       IF estudiante_id \notin DOMAIN estudiante THEN
           /\ last' = Outcome(op, "None", estudiante_id, 0, estudiante_data)
           /\ UNCHANGED <<estudiante, curso, matricula>>
       ELSE IF /\ "cedula" \in DOMAIN estudiante_data
               /\ cedula_existente(estudiante_data["cedula"], {estudiante_id}) THEN
           /\ last' = Outcome(op, "ValueError_cedula", estudiante_id, 0, estudiante_data)
           /\ UNCHANGED <<estudiante, curso, matricula>>
       ELSE IF \/ nuevo_id # estudiante_id /\ nuevo_id \in DOMAIN estudiante
               \/ /\ "cedula" \in DOMAIN estudiante_data
                  /\ cedula_unique_violada(estudiante_data["cedula"], {estudiante_id})
       THEN
           \* commit fails on the primary key or on the unique index: rolled back
           /\ last' = Outcome(op, "IntegrityError", estudiante_id, 0, estudiante_data)
           /\ UNCHANGED <<estudiante, curso, matricula>>
       ELSE
           \/ \* an engine that enforces FOREIGN KEY rejects the new id of a
              \* referenced row; SQLite, the default DATABASE_URL, does not
              /\ clave_foranea_violada(nuevo_id # estudiante_id, referenced)
              /\ last' = Outcome(op, "IntegrityError", estudiante_id, 0, estudiante_data)
              /\ UNCHANGED <<estudiante, curso, matricula>>
           \/ /\ estudiante' = SinFila(estudiante, estudiante_id)
                     @@ (nuevo_id :> Aplicar(estudiante[estudiante_id], estudiante_data))
              /\ last' = Outcome(op, "ok", estudiante_id, 0, estudiante_data)
              /\ UNCHANGED <<curso, matricula>>

eliminar_estudiante(estudiante_id) ==
    /\ UNCHANGED req
    /\ IF estudiante_id \notin DOMAIN estudiante THEN
           /\ last' = Outcome("eliminar_estudiante", "False", estudiante_id, 0, NoData)
           /\ UNCHANGED <<estudiante, curso, matricula>>
       ELSE
           /\ estudiante' = SinFila(estudiante, estudiante_id)
           /\ matricula' = SinEnlaces({Fila(estudiante_id, c) :
                                          c \in cursos_matriculados(estudiante_id)})
           /\ last' = Outcome("eliminar_estudiante", "True", estudiante_id, 0, NoData)
           /\ UNCHANGED curso

\* cursos_de_estudiante: the courses of the student, by id; empty when the
\* student does not exist.
RECURSIVE EnOrden(_)
EnOrden(S) ==
    IF S = {} THEN <<>>
    ELSE LET m == CHOOSE x \in S : \A y \in S : x <= y
         IN <<m>> \o EnOrden(S \ {m})

cursos_de_estudiante(estudiante_id) ==
    IF estudiante_id \notin DOMAIN estudiante THEN <<>>
    ELSE EnOrden(cursos_matriculados(estudiante_id))

estudiantes_de_curso(curso_id) ==
    IF curso_id \notin DOMAIN curso THEN <<>>
    ELSE EnOrden(estudiantes_matriculados(curso_id))

\* `if semestre:` on the optional parameter; filtro is the empty dictionary
\* when the caller passes no semestre (None).  None and 0 are false.
semestre_verdadero(filtro) ==
    "semestre" \in DOMAIN filtro /\ filtro["semestre"] # 0

\* The rows that the query of listar_estudiantes selects.
filas_listadas(filtro) ==
    IF semestre_verdadero(filtro)
    THEN {i \in DOMAIN estudiante : estudiante[i].semestre = filtro["semestre"]}
    ELSE DOMAIN estudiante

\* listar_estudiantes: the selected rows in the order of the table, which has
\* no ORDER BY and is the order of the primary key.
listar_estudiantes(filtro) ==
    /\ last' = Outcome("listar_estudiantes", EnOrden(filas_listadas(filtro)), 0, 0, filtro)
    /\ UNCHANGED <<estudiante, curso, matricula, req>>

----------------------------------------------------------------------------
(* Entity store: cursos *)

crear_curso(c) ==
    /\ UNCHANGED req
    /\ IF ~CursoValido(c) THEN
           /\ last' = Outcome("crear_curso", "ValidationError", 0, 0, c)
           /\ UNCHANGED <<estudiante, curso, matricula>>
       ELSE IF codigo_existente(c.codigo, {}) THEN
           /\ last' = Outcome("crear_curso", "ValueError_codigo", 0, 0, c)
           /\ UNCHANGED <<estudiante, curso, matricula>>
       ELSE IF codigo_unique_violado(c.codigo, {}) THEN
           /\ last' = Outcome("crear_curso", "IntegrityError", 0, 0, c)
           /\ UNCHANGED <<estudiante, curso, matricula>>
       ELSE
           \E id \in CursoIds \ DOMAIN curso :
               /\ curso' = curso @@ (id :> CursoConstruido(c))
               /\ last' = Outcome("crear_curso", "ok", 0, id, c)
               /\ UNCHANGED <<estudiante, matricula>>

actualizar_curso(curso_id, curso_data) ==
    /\ UNCHANGED req
    /\ LET nuevo_id == NuevoId(curso_id, curso_data)
           referenced == \E f \in BagToSet(matricula) : f.curso_id = curso_id
           op == "actualizar_curso"
       IN
       IF curso_id \notin DOMAIN curso THEN
           /\ last' = Outcome(op, "None", 0, curso_id, curso_data)
           /\ UNCHANGED <<estudiante, curso, matricula>>
       ELSE IF /\ "codigo" \in DOMAIN curso_data
               /\ codigo_existente(curso_data["codigo"], {curso_id}) THEN
           /\ last' = Outcome(op, "ValueError_codigo", 0, curso_id, curso_data)
           /\ UNCHANGED <<estudiante, curso, matricula>>
       ELSE IF \/ nuevo_id # curso_id /\ nuevo_id \in DOMAIN curso
               \/ /\ "codigo" \in DOMAIN curso_data
                  /\ codigo_unique_violado(curso_data["codigo"], {curso_id})
       THEN
           /\ last' = Outcome(op, "IntegrityError", 0, curso_id, curso_data)
           /\ UNCHANGED <<estudiante, curso, matricula>>
       ELSE
           \/ /\ clave_foranea_violada(nuevo_id # curso_id, referenced)
              /\ last' = Outcome(op, "IntegrityError", 0, curso_id, curso_data)
              /\ UNCHANGED <<estudiante, curso, matricula>>
           \/ /\ curso' = SinFila(curso, curso_id)
                     @@ (nuevo_id :> Aplicar(curso[curso_id], curso_data))
              /\ last' = Outcome(op, "ok", 0, curso_id, curso_data)
              /\ UNCHANGED <<estudiante, matricula>>

eliminar_curso(curso_id) ==
    /\ UNCHANGED req
    /\ IF curso_id \notin DOMAIN curso THEN
           /\ last' = Outcome("eliminar_curso", "False", 0, curso_id, NoData)
           /\ UNCHANGED <<estudiante, curso, matricula>>
       ELSE
           /\ curso' = SinFila(curso, curso_id)
           /\ matricula' = SinEnlaces({Fila(e, curso_id) :
                                          e \in estudiantes_matriculados(curso_id)})
           /\ last' = Outcome("eliminar_curso", "True", 0, curso_id, NoData)
           /\ UNCHANGED estudiante

----------------------------------------------------------------------------
(* Enrollment manager *)

matricular_estudiante(estudiante_id, curso_id) ==
    /\ UNCHANGED req
    /\ LET op == "matricular_estudiante" IN
       IF estudiante_id \notin DOMAIN estudiante \/ curso_id \notin DOMAIN curso THEN
           /\ last' = Outcome(op, "False", estudiante_id, curso_id, NoData)
           /\ UNCHANGED <<estudiante, curso, matricula>>
       ELSE IF ya_matriculado(estudiante_id, curso_id) THEN
           /\ last' = Outcome(op, "ValueError_ya_matriculado", estudiante_id, curso_id, NoData)
           /\ UNCHANGED <<estudiante, curso, matricula>>
       ELSE IF conflicto_horario(estudiante_id, curso_id) THEN
           /\ last' = Outcome(op, "ValueError_horario", estudiante_id, curso_id, NoData)
           /\ UNCHANGED <<estudiante, curso, matricula>>
       ELSE IF matricula_unique_violada(estudiante_id, curso_id) THEN
           /\ last' = Outcome(op, "IntegrityError", estudiante_id, curso_id, NoData)
           /\ UNCHANGED <<estudiante, curso, matricula>>
       ELSE
           /\ BagCardinality(matricula) < MaxMatriculas
           /\ matricula' = matricula (+) SetToBag({Fila(estudiante_id, curso_id)})
           /\ last' = Outcome(op, "True", estudiante_id, curso_id, NoData)
           /\ UNCHANGED <<estudiante, curso>>

desmatricular_estudiante(estudiante_id, curso_id) ==
    /\ UNCHANGED req
    /\ LET op == "desmatricular_estudiante" IN
       IF ~ya_matriculado(estudiante_id, curso_id) THEN
           /\ last' = Outcome(op, "False", estudiante_id, curso_id, NoData)
           /\ UNCHANGED <<estudiante, curso, matricula>>
       ELSE
           /\ matricula' = matricula (-) SetToBag({Fila(estudiante_id, curso_id)})
           /\ last' = Outcome(op, "True", estudiante_id, curso_id, NoData)
           /\ UNCHANGED <<estudiante, curso>>

----------------------------------------------------------------------------
(* Request data the operations are run on *)

CedulaA == <<"1", "0", "0", "0", "0", "0", "0", "1">>
CedulaB == <<"1", "2", "3", "4", "5", "6", "7", "8", "9", "0">>
EmailAna == <<"a", "n", "a", "@", "u", "n", "i", ".", "e", "d", "u">>
CodigoMat == <<"M", "A", "T", "1", "0", "1">>
CodigoFis == <<"F", "I", "S", "2", "0", "2">>
HorarioLun == <<"L", "u", "n", " ", "8", "-", "1", "0">>
HorarioMar == <<"M", "a", "r", " ", "8", "-", "1", "0">>

\* The dictionaries with key k absent or bound to a value of V.
Opt(k, V) == {<<>>} \cup {k :> v : v \in V}

EstudiantesNuevos ==
    {[cedula |-> c, nombre |-> "Ana", email |-> EmailAna, semestre |-> 3] :
        c \in {CedulaA, CedulaB}}

\* Partial updates of one key at most.
EstudianteCambios ==
    Opt("id", EstudianteIds) \cup Opt("cedula", {CedulaA, CedulaB})

CursosNuevos ==
    {[codigo |-> k, nombre |-> "Calc", creditos |-> 4, horario |-> h] :
        k \in {CodigoMat, CodigoFis}, h \in {HorarioLun, HorarioMar}}

CursoCambios ==
    Opt("id", CursoIds) \cup Opt("codigo", {CodigoMat, CodigoFis})
        \cup Opt("horario", {HorarioLun, HorarioMar})

----------------------------------------------------------------------------
(* Every operation run to completion, one at a time *)

Next ==
    \/ \E e \in EstudiantesNuevos : crear_estudiante(e)
    \/ \E id \in EstudianteIds, data \in EstudianteCambios : actualizar_estudiante(id, data)
    \/ \E id \in EstudianteIds : eliminar_estudiante(id)
    \/ \E c \in CursosNuevos : crear_curso(c)
    \/ \E id \in CursoIds, data \in CursoCambios : actualizar_curso(id, data)
    \/ \E id \in CursoIds : eliminar_curso(id)
    \/ \E e \in EstudianteIds, c \in CursoIds : matricular_estudiante(e, c)
    \/ \E e \in EstudianteIds, c \in CursoIds : desmatricular_estudiante(e, c)

Spec == Init /\ [][Next]_vars

----------------------------------------------------------------------------
(* Crud calls made at the same time, each with the session of its own     *)
(* request: the SELECTs of a call read the committed tables, and           *)
(* session.commit() writes later, so another call's steps may fall between *)
(* the two.                                                                *)

Set(p, r) == req' = [req EXCEPT ![p] = r]

\* A call of crud.crear_estudiante starts.
solicitar_crear_estudiante(p, e) ==
    /\ req[p].pc = "idle"
    /\ Set(p, Request("select", "crear_estudiante", 0, 0, e, "none"))
    /\ UNCHANGED <<estudiante, curso, matricula, last>>

\* A call of crud.crear_curso starts.
solicitar_crear_curso(p, c) ==
    /\ req[p].pc = "idle"
    /\ Set(p, Request("select", "crear_curso", 0, 0, c, "none"))
    /\ UNCHANGED <<estudiante, curso, matricula, last>>

\* A call of crud.matricular_estudiante starts.
solicitar_matricular(p, estudiante_id, curso_id) ==
    /\ req[p].pc = "idle"
    /\ Set(p, Request("select", "matricular_estudiante", estudiante_id, curso_id,
                      NoData, "none"))
    /\ UNCHANGED <<estudiante, curso, matricula, last>>

\* crear_estudiante up to the `if existing` test.
crear_estudiante_select(p) ==
    /\ req[p].pc = "select"
    /\ req[p].op = "crear_estudiante"
    /\ IF ~EstudianteValido(req[p].data) THEN
           Set(p, [req[p] EXCEPT !.pc = "done", !.res = "ValidationError"])
       ELSE IF cedula_existente(req[p].data.cedula, {}) THEN
           Set(p, [req[p] EXCEPT !.pc = "done", !.res = "ValueError_cedula"])
       ELSE
           Set(p, [req[p] EXCEPT !.pc = "commit"])
    /\ UNCHANGED <<estudiante, curso, matricula, last>>

\* session.add(estudiante); session.commit()
crear_estudiante_commit(p) ==
    /\ req[p].pc = "commit"
    /\ req[p].op = "crear_estudiante"
    /\ IF cedula_unique_violada(req[p].data.cedula, {}) THEN
           /\ Set(p, [req[p] EXCEPT !.pc = "done", !.res = "IntegrityError"])
           /\ UNCHANGED estudiante
       ELSE
           \E id \in EstudianteIds \ DOMAIN estudiante :
               /\ estudiante' = estudiante @@ (id :> req[p].data)
               /\ Set(p, [req[p] EXCEPT !.pc = "done", !.res = "ok", !.est = id])
    /\ UNCHANGED <<curso, matricula, last>>

\* crear_curso up to the `if existing` test.
crear_curso_select(p) ==
    /\ req[p].pc = "select"
    /\ req[p].op = "crear_curso"
    /\ IF ~CursoValido(req[p].data) THEN
           Set(p, [req[p] EXCEPT !.pc = "done", !.res = "ValidationError"])
       ELSE IF codigo_existente(req[p].data.codigo, {}) THEN
           Set(p, [req[p] EXCEPT !.pc = "done", !.res = "ValueError_codigo"])
       ELSE
           Set(p, [req[p] EXCEPT !.pc = "commit"])
    /\ UNCHANGED <<estudiante, curso, matricula, last>>

\* session.add(curso); session.commit()
crear_curso_commit(p) ==
    /\ req[p].pc = "commit"
    /\ req[p].op = "crear_curso"
    /\ IF codigo_unique_violado(req[p].data.codigo, {}) THEN
           /\ Set(p, [req[p] EXCEPT !.pc = "done", !.res = "IntegrityError"])
           /\ UNCHANGED curso
       ELSE
           \E id \in CursoIds \ DOMAIN curso :
               /\ curso' = curso @@ (id :> CursoConstruido(req[p].data))
               /\ Set(p, [req[p] EXCEPT !.pc = "done", !.res = "ok", !.cur = id])
    /\ UNCHANGED <<estudiante, matricula, last>>

\* matricular_estudiante up to the horario loop: every read of the call.
matricular_select(p) ==
    /\ req[p].pc = "select"
    /\ req[p].op = "matricular_estudiante"
    /\ LET e == req[p].est
           c == req[p].cur
       IN
       IF e \notin DOMAIN estudiante \/ c \notin DOMAIN curso THEN
           Set(p, [req[p] EXCEPT !.pc = "done", !.res = "False"])
       ELSE IF ya_matriculado(e, c) THEN
           Set(p, [req[p] EXCEPT !.pc = "done", !.res = "ValueError_ya_matriculado"])
       ELSE IF conflicto_horario(e, c) THEN
           Set(p, [req[p] EXCEPT !.pc = "done", !.res = "ValueError_horario"])
       ELSE
           Set(p, [req[p] EXCEPT !.pc = "commit"])
    /\ UNCHANGED <<estudiante, curso, matricula, last>>

\* session.add(Matricula(...)); session.commit()
matricular_commit(p) ==
    /\ req[p].pc = "commit"
    /\ req[p].op = "matricular_estudiante"
    /\ IF matricula_unique_violada(req[p].est, req[p].cur) THEN
           /\ Set(p, [req[p] EXCEPT !.pc = "done", !.res = "IntegrityError"])
           /\ UNCHANGED matricula
       ELSE
           /\ BagCardinality(matricula) < MaxMatriculas
           /\ matricula' = matricula (+) SetToBag({Fila(req[p].est, req[p].cur)})
           /\ Set(p, [req[p] EXCEPT !.pc = "done", !.res = "True"])
    /\ UNCHANGED <<estudiante, curso, last>>

\* The call is over and the session closed.
responder(p) ==
    /\ req[p].pc = "done"
    /\ Set(p, Idle)
    /\ UNCHANGED <<estudiante, curso, matricula, last>>

EstudiantesConc ==
    {[cedula |-> CedulaA, nombre |-> "Ana", email |-> EmailAna, semestre |-> 3]}

CursosConc ==
    {[codigo |-> k, nombre |-> "Calc", creditos |-> 4, horario |-> HorarioLun] :
        k \in {CodigoMat, CodigoFis}}

NextConc ==
    \E p \in Procs :
        \/ \E e \in EstudiantesConc : solicitar_crear_estudiante(p, e)
        \/ \E c \in CursosConc : solicitar_crear_curso(p, c)
        \/ \E e \in EstudianteIds, c \in CursoIds : solicitar_matricular(p, e, c)
        \/ crear_estudiante_select(p)
        \/ crear_estudiante_commit(p)
        \/ crear_curso_select(p)
        \/ crear_curso_commit(p)
        \/ matricular_select(p)
        \/ matricular_commit(p)
        \/ responder(p)

SpecConc == Init /\ [][NextConc]_vars

----------------------------------------------------------------------------
(* Request handlers of main.py *)

\* Function names that main.py both imports from crud and defines as handlers.
Nombres == <<"crear_estudiante", "crear_curso", "matricular_estudiante">>

\* The statements that bind those names in the namespace of main.py, in the
\* order they run at import: `from crud import (...)`, then each `def` under
\* its route decorator.
main_bindings ==
    [i \in 1..Len(Nombres) |-> [name |-> Nombres[i], mod |-> "crud"]]
        \o [i \in 1..Len(Nombres) |-> [name |-> Nombres[i], mod |-> "main"]]

\* Lookup of a global name when a call runs: the binding made last.
resolver(name) ==
    LET idx == {i \in DOMAIN main_bindings : main_bindings[i].name = name}
    IN main_bindings[CHOOSE i \in idx : \A j \in idx : j <= i].mod

\* Frames the interpreter allows on the stack before it raises RecursionError.
RecursionLimit == 3

\* The status of the response: the handler's mapping of what the crud
\* function returned or raised; an exception that no handler catches is
\* answered with 500, a request body that fails validation with 422.
estado_http(op, res) ==
    CASE res = "ok" -> 201
      [] res = "True" -> 200
      [] res = "False" -> 404
      [] res = "ValidationError" -> 422
      [] res \in {"ValueError_cedula", "ValueError_codigo"} -> 400
      [] res \in {"ValueError_ya_matriculado", "ValueError_horario"} -> 409
      [] OTHER -> 500

\* The framework calls the handler of the route with the parsed request.
recibir(p, op, est, cur, data) ==
    /\ req[p].pc = "idle"
    /\ Set(p, [Request("handler", op, est, cur, data, "none") EXCEPT !.frames = 1])
    /\ UNCHANGED <<estudiante, curso, matricula, last>>

\* The call statement in the body of the handler, e.g.
\* `return crear_estudiante(session, estudiante)`: the name is looked up in
\* the namespace of main.py and the function found is called.
handler_llamar(p) ==
    /\ req[p].pc = "handler"
    /\ IF resolver(req[p].op) = "crud" THEN
           \* the crud function runs
           Set(p, [req[p] EXCEPT !.pc = "select"])
       ELSE IF req[p].frames < RecursionLimit THEN
           \* the handler itself runs again, called with positional arguments
           Set(p, [req[p] EXCEPT !.frames = @ + 1])
       ELSE
           \* RecursionError is not a ValueError: no frame catches it
           Set(p, [req[p] EXCEPT !.pc = "done", !.res = "RecursionError", !.frames = 0])
    /\ UNCHANGED <<estudiante, curso, matricula, last>>

NextHttp ==
    \E p \in Procs :
        \/ \E e \in EstudiantesConc : recibir(p, "crear_estudiante", 0, 0, e)
        \/ \E c \in CursosConc : recibir(p, "crear_curso", 0, 0, c)
        \/ \E e \in EstudianteIds, c \in CursoIds :
               recibir(p, "matricular_estudiante", e, c, NoData)
        \/ handler_llamar(p)
        \/ responder(p)

SpecHttp == Init /\ [][NextHttp]_vars

----------------------------------------------------------------------------
(* Create and update run on well-formed and on malformed field values *)

CedulaCorta == <<"1", "2", "3">>
EmailSinArroba == <<"a", "n", "a", ".", "e", "d", "u">>
CodigoMinusculas == <<"m", "a", "t", "1", "0", "1">>
HorarioCorto == <<" ", "L", "u", "n", " ">>
HorarioConEspacios == <<" ", "L", "u", "n", " ", "8", "-", "1", "0", " ">>
SemestreFuera == SemestreMax + 1
CreditosFuera == CreditosMax + 1

EstudianteAna == [cedula |-> CedulaA, nombre |-> "Ana", email |-> EmailAna, semestre |-> 3]

\* A well-formed student, and one malformed in each validated field.
EstudiantesVal ==
    {EstudianteAna,
     [EstudianteAna EXCEPT !.cedula = CedulaCorta],
     [EstudianteAna EXCEPT !.email = EmailSinArroba],
     [EstudianteAna EXCEPT !.semestre = SemestreFuera]}

EstudianteCambiosVal ==
    Opt("cedula", {CedulaCorta}) \cup Opt("email", {EmailSinArroba})
        \cup Opt("semestre", {SemestreFuera})

CursoCalc ==
    [codigo |-> CodigoMat, nombre |-> "Calc", creditos |-> 4,
     horario |-> HorarioConEspacios]

\* A well-formed course, and one malformed in each validated field.
CursosVal ==
    {CursoCalc,
     [CursoCalc EXCEPT !.codigo = CodigoMinusculas],
     [CursoCalc EXCEPT !.creditos = CreditosFuera],
     [CursoCalc EXCEPT !.horario = HorarioCorto]}

CursoCambiosVal ==
    Opt("codigo", {CodigoMinusculas}) \cup Opt("horario", {HorarioCorto})
        \cup Opt("creditos", {CreditosFuera})

NextVal ==
    \/ \E e \in EstudiantesVal : crear_estudiante(e)
    \/ \E id \in EstudianteIds, data \in EstudianteCambiosVal :
           actualizar_estudiante(id, data)
    \/ \E c \in CursosVal : crear_curso(c)
    \/ \E id \in CursoIds, data \in CursoCambiosVal : actualizar_curso(id, data)

SpecVal == Init /\ [][NextVal]_vars

----------------------------------------------------------------------------
(* Students of several semesters created, deleted and listed *)

SemestreCero == SemestreMin - 1

EstudiantesLista ==
    {[cedula |-> c, nombre |-> "Ana", email |-> EmailAna, semestre |-> n] :
        c \in {CedulaA, CedulaB}, n \in {SemestreMin, SemestreMax}}

\* No semestre, and semestre 0, 1, 12 and 13.
FiltrosSemestre ==
    Opt("semestre", {SemestreCero, SemestreMin, SemestreMax, SemestreFuera})

NextLista ==
    \/ \E e \in EstudiantesLista : crear_estudiante(e)
    \/ \E id \in EstudianteIds : eliminar_estudiante(id)
    \/ \E filtro \in FiltrosSemestre : listar_estudiantes(filtro)

SpecLista == Init /\ [][NextLista]_vars

----------------------------------------------------------------------------
(* The validator of cedula run on strings around its length limits *)

MaxCola == 2

\* An ASCII digit, a non-ASCII decimal digit, a newline, a letter, a space.
ColaChars == {"1", "u0663", "\n", "a", " "}

Colas == UNION {[1..n -> ColaChars] : n \in 0..MaxCola}

\* Digits "1", from two fewer than the minimum to the maximum length,
\* followed by at most MaxCola characters of ColaChars.
CedulasEntrada ==
    {[i \in 1..n |-> "1"] \o t : n \in (CedulaMinLen - 2)..CedulaMaxLen, t \in Colas}

NextCedula == \E valor \in CedulasEntrada : validar_campo_cedula(valor)

SpecCedula == Init /\ [][NextCedula]_vars

----------------------------------------------------------------------------
(* Properties *)

\* Every step of Spec and SpecVal is one crud call, which last' describes.
Paso(op) == last'.op = op

TablasIguales == estudiante' = estudiante /\ curso' = curso /\ matricula' = matricula

\* C1: whatever operations have run, one after the other, no two rows of
\* matricula have the same (estudiante_id, curso_id).
C1_MatriculaUnica == \A f \in BagToSet(matricula) : CopiesIn(f, matricula) <= 1

C1_Witness ==
    /\ last.op = "matricular_estudiante"
    /\ last.res = "True"
    /\ BagCardinality(matricula) = 2

\* C2: when two requests interleave their check and their insert, a
\* duplicate create or enroll is rejected: of two finished requests for the
\* same cedula, codigo or pair at most one succeeded, and no cedula, codigo
\* or pair is stored twice.
C2_DuplicadoConcurrenteRechazado ==
    /\ \A f \in BagToSet(matricula) : CopiesIn(f, matricula) <= 1
    /\ \A i, j \in DOMAIN estudiante : i # j => estudiante[i].cedula # estudiante[j].cedula
    /\ \A i, j \in DOMAIN curso : i # j => curso[i].codigo # curso[j].codigo
    /\ \A p, q \in Procs :
           (/\ p # q
            /\ req[p].pc = "done" /\ req[q].pc = "done"
            /\ req[p].op = req[q].op
            /\ req[p].res \in {"ok", "True"} /\ req[q].res \in {"ok", "True"})
           => CASE req[p].op = "crear_estudiante" -> req[p].data.cedula # req[q].data.cedula
                [] req[p].op = "crear_curso" -> req[p].data.codigo # req[q].data.codigo
                [] OTHER -> <<req[p].est, req[p].cur>> # <<req[q].est, req[q].cur>>

\* C3: matricular_estudiante on an existing student and course that already
\* have a row fails with "ya matriculado" and changes no table: exactly one
\* row for the pair is there afterwards.
C3_MatriculaRepetida ==
    [][(/\ Paso("matricular_estudiante")
        /\ last'.est \in DOMAIN estudiante
        /\ last'.cur \in DOMAIN curso
        /\ CopiesIn(Fila(last'.est, last'.cur), matricula) > 0)
       => (/\ last'.res = "ValueError_ya_matriculado"
           /\ TablasIguales
           /\ CopiesIn(Fila(last'.est, last'.cur), matricula') = 1)]_vars

C3_Witness ==
    /\ last.op = "matricular_estudiante"
    /\ last.res = "ValueError_ya_matriculado"
    /\ CopiesIn(Fila(last.est, last.cur), matricula) = 1

\* C4: matricular_estudiante(e, t) on an existing student and course: if e
\* has a row for another existing course with the same horario string as t,
\* the call fails with a conflict (the horario conflict when the pair itself
\* has no row) and matricula is unchanged; if no course of e has that horario
\* and the pair has no row, the call succeeds and adds exactly the row (e, t).
C4_ConflictoHorario ==
    [][(/\ Paso("matricular_estudiante")
        /\ last'.est \in DOMAIN estudiante
        /\ last'.cur \in DOMAIN curso)
       => LET e == last'.est
              t == last'.cur
              choque == \E a \in DOMAIN curso \ {t} :
                            /\ CopiesIn(Fila(e, a), matricula) > 0
                            /\ curso[a].horario = curso[t].horario
              inscrito == CopiesIn(Fila(e, t), matricula) > 0
          IN /\ choque =>
                    /\ last'.res \in {"ValueError_horario", "ValueError_ya_matriculado"}
                    /\ ~inscrito => last'.res = "ValueError_horario"
                    /\ TablasIguales
             /\ (~choque /\ ~inscrito) =>
                    /\ last'.res = "True"
                    /\ matricula' = matricula (+) SetToBag({Fila(e, t)})
                    /\ estudiante' = estudiante /\ curso' = curso]_vars

C4_Witness ==
    /\ last.op = "matricular_estudiante"
    /\ last.res = "ValueError_horario"
    /\ CopiesIn(Fila(last.est, last.cur), matricula) = 0
    /\ \E a \in DOMAIN curso \ {last.cur} :
           /\ CopiesIn(Fila(last.est, a), matricula) = 1
           /\ curso[a].horario = curso[last.cur].horario

\* C5: whatever create, update and delete operations have run, one after the
\* other, stored students have pairwise distinct cedulas and stored courses
\* pairwise distinct codigos.
C5_ClavesUnicas ==
    /\ \A i, j \in DOMAIN estudiante : i # j => estudiante[i].cedula # estudiante[j].cedula
    /\ \A i, j \in DOMAIN curso : i # j => curso[i].codigo # curso[j].codigo

C5_Witness ==
    /\ Cardinality(DOMAIN estudiante) = 2
    /\ Cardinality(DOMAIN curso) = 2
    /\ last.op = "actualizar_curso"
    /\ last.res = "ValueError_codigo"

\* C6: crear_estudiante on a student whose cedula a stored student holds
\* fails with the duplicate-cedula error and changes no table, so the stored
\* student is still there with the same fields.
C6_CedulaDuplicada ==
    [][(/\ Paso("crear_estudiante")
        /\ EstudianteValido(last'.data)
        /\ \E i \in DOMAIN estudiante : estudiante[i].cedula = last'.data.cedula)
       => (/\ last'.res = "ValueError_cedula"
           /\ TablasIguales)]_vars

C6_Witness ==
    /\ last.op = "crear_estudiante"
    /\ last.res = "ValueError_cedula"
    /\ \E i \in DOMAIN estudiante : estudiante[i].cedula = last.data.cedula

\* C7: once eliminar_estudiante(id) has returned True, no row of matricula
\* references id and cursos_de_estudiante(id) is empty, while the rows of
\* other students and the table curso are as before.
C7_EliminarEstudianteCascada ==
    [][\A id \in EstudianteIds :
        (Paso("eliminar_estudiante") /\ last'.res = "True" /\ last'.est = id)
        => (/\ \A f \in BagToSet(matricula') : f.estudiante_id # id
            /\ cursos_de_estudiante(id)' = <<>>
            /\ \A f \in BagToSet(matricula) \cup BagToSet(matricula') :
                   f.estudiante_id # id
                       => CopiesIn(f, matricula') = CopiesIn(f, matricula)
            /\ curso' = curso)]_vars

\* C8: in every reachable state every row of matricula references a student
\* and a course that are stored.
C8_SinMatriculaHuerfana ==
    \A f \in BagToSet(matricula) :
        f.estudiante_id \in DOMAIN estudiante /\ f.curso_id \in DOMAIN curso

\* The supplied dictionary has a value that the validator of its field rejects.
DatoInvalidoEstudiante(data) ==
    \/ "cedula" \in DOMAIN data /\ ~validar_cedula(data["cedula"])
    \/ "email" \in DOMAIN data /\ ~validar_email(data["email"])
    \/ "semestre" \in DOMAIN data /\ ~validar_semestre(data["semestre"])

DatoInvalidoCurso(data) ==
    \/ "codigo" \in DOMAIN data /\ ~validar_codigo(data["codigo"])
    \/ "horario" \in DOMAIN data /\ ~validar_horario(data["horario"])
    \/ "creditos" \in DOMAIN data /\ ~validar_creditos(data["creditos"])

\* C9: an update of a stored student or course that supplies a value its
\* validator rejects fails with ValidationError and leaves the tables as
\* they were.
C9_ActualizarValida ==
    [][/\ (/\ Paso("actualizar_estudiante")
           /\ last'.est \in DOMAIN estudiante
           /\ DatoInvalidoEstudiante(last'.data))
          => (last'.res = "ValidationError" /\ TablasIguales)
       /\ (/\ Paso("actualizar_curso")
           /\ last'.cur \in DOMAIN curso
           /\ DatoInvalidoCurso(last'.data))
          => (last'.res = "ValidationError" /\ TablasIguales)]_vars

\* C10: actualizar_estudiante on a stored student with a cedula that another
\* student holds fails with the duplicate-cedula error and changes no table;
\* with the cedula the student already has, it is not rejected as a duplicate.
C10_ActualizarCedula ==
    [][(/\ Paso("actualizar_estudiante")
        /\ last'.est \in DOMAIN estudiante
        /\ "cedula" \in DOMAIN last'.data)
       => LET id == last'.est
              cedula == last'.data["cedula"]
          IN /\ (\E i \in DOMAIN estudiante \ {id} : estudiante[i].cedula = cedula)
                    => (last'.res = "ValueError_cedula" /\ TablasIguales)
             /\ estudiante[id].cedula = cedula
                    => last'.res # "ValueError_cedula"]_vars

C10_Witness ==
    /\ last.op = "actualizar_estudiante"
    /\ last.res = "ok"
    /\ last.est \in DOMAIN estudiante
    /\ "cedula" \in DOMAIN last.data
    /\ estudiante[last.est].cedula = last.data["cedula"]
    /\ Cardinality(DOMAIN estudiante) = 2

\* C11: a successful actualizar_estudiante or actualizar_curso with a partial
\* dictionary leaves the targeted record with exactly the supplied values in
\* the supplied fields and its prior values in every omitted field; every
\* other row of estudiante and curso, and the whole of matricula, is unchanged.
C11_ActualizacionParcial ==
    [][/\ \A id \in EstudianteIds :
            (Paso("actualizar_estudiante") /\ last'.res = "ok" /\ last'.est = id)
            => LET data == last'.data
                   nuevo == IF "id" \in DOMAIN data THEN data["id"] ELSE id
               IN /\ DOMAIN estudiante' = (DOMAIN estudiante \ {id}) \cup {nuevo}
                  /\ \A k \in DOMAIN estudiante[id] :
                         IF k \in DOMAIN data
                         THEN estudiante'[nuevo][k] = data[k]
                         ELSE estudiante'[nuevo][k] = estudiante[id][k]
                  /\ \A i \in DOMAIN estudiante \ {id} : estudiante'[i] = estudiante[i]
                  /\ curso' = curso
                  /\ matricula' = matricula
       /\ \A id \in CursoIds :
            (Paso("actualizar_curso") /\ last'.res = "ok" /\ last'.cur = id)
            => LET data == last'.data
                   nuevo == IF "id" \in DOMAIN data THEN data["id"] ELSE id
               IN /\ DOMAIN curso' = (DOMAIN curso \ {id}) \cup {nuevo}
                  /\ \A k \in DOMAIN curso[id] :
                         IF k \in DOMAIN data
                         THEN curso'[nuevo][k] = data[k]
                         ELSE curso'[nuevo][k] = curso[id][k]
                  /\ \A i \in DOMAIN curso \ {id} : curso'[i] = curso[i]
                  /\ estudiante' = estudiante
                  /\ matricula' = matricula]_vars

C11_Witness ==
    /\ last.op = "actualizar_curso"
    /\ last.res = "ok"
    /\ "horario" \in DOMAIN last.data
    /\ Cardinality(DOMAIN curso) = 2
    /\ last.cur \in DOMAIN curso
    /\ curso[last.cur].horario = last.data["horario"]
    /\ \E i \in DOMAIN curso \ {last.cur} : curso[i].horario # last.data["horario"]
    /\ BagCardinality(matricula) >= 1

\* C12: desmatricular_estudiante(e, c) on a pair without a row returns False
\* and changes no table; on a pair with a row it returns True, and afterwards
\* no row for the pair exists, while the other rows and the tables estudiante
\* and curso are as before.
C12_Desmatricular ==
    [][Paso("desmatricular_estudiante")
       => LET e == last'.est
              c == last'.cur
              n == CopiesIn(Fila(e, c), matricula)
          IN /\ n = 0 => (last'.res = "False" /\ TablasIguales)
             /\ n > 0 =>
                    /\ last'.res = "True"
                    /\ CopiesIn(Fila(e, c), matricula') = 0
                    /\ \A f \in BagToSet(matricula) \ {Fila(e, c)} :
                           CopiesIn(f, matricula') = CopiesIn(f, matricula)
                    /\ BagToSet(matricula') \subseteq BagToSet(matricula)
                    /\ estudiante' = estudiante
                    /\ curso' = curso]_vars

C12_Witness ==
    /\ last.op = "desmatricular_estudiante"
    /\ last.res = "True"
    /\ CopiesIn(Fila(last.est, last.cur), matricula) = 0
    /\ BagCardinality(matricula) = 1

\* C17: matricular_estudiante tests existence first, then the duplicate pair,
\* then the horario: with the student or the course missing it returns False
\* and changes nothing, whatever rows matricula holds; on a stored pair that
\* has a row it reports "ya matriculado"; and it reports a horario conflict
\* only for a stored student and course whose pair has no row.
C17_OrdenDeChequeos ==
    [][Paso("matricular_estudiante")
       => LET e == last'.est
              t == last'.cur
              falta == e \notin DOMAIN estudiante \/ t \notin DOMAIN curso
              inscrito == CopiesIn(Fila(e, t), matricula) > 0
          IN /\ falta => (last'.res = "False" /\ TablasIguales)
             /\ (~falta /\ inscrito) => last'.res = "ValueError_ya_matriculado"
             /\ last'.res = "ValueError_horario" => (~falta /\ ~inscrito)]_vars

C17_Witness ==
    /\ last.op = "matricular_estudiante"
    /\ last.res = "ValueError_ya_matriculado"
    /\ last.est \in DOMAIN estudiante
    /\ last.cur \in DOMAIN curso
    /\ \E a \in DOMAIN curso \ {last.cur} :
           /\ CopiesIn(Fila(last.est, a), matricula) > 0
           /\ curso[a].horario = curso[last.cur].horario

\* C18: in every reachable state, no stored student has rows for two distinct
\* stored courses whose horario strings are identical.
C18_SinChoqueDeHorario ==
    \A e \in DOMAIN estudiante :
        \A a, b \in DOMAIN curso :
            (/\ a # b
             /\ CopiesIn(Fila(e, a), matricula) > 0
             /\ CopiesIn(Fila(e, b), matricula) > 0)
            => curso[a].horario # curso[b].horario

\* C19: no call of actualizar_estudiante or actualizar_curso, whatever keys
\* its dictionary has, changes which ids are stored: the targeted record
\* keeps its id, so every row of matricula references the record it did.
C19_IdInmutable ==
    [][/\ Paso("actualizar_estudiante") => DOMAIN estudiante' = DOMAIN estudiante
       /\ Paso("actualizar_curso") => DOMAIN curso' = DOMAIN curso]_vars

\* C15: listar_estudiantes called with a semestre s, whatever its value (0
\* and values outside 1..12 included), returns exactly the stored students
\* whose semestre is s, in the order of the table; called without a semestre
\* it returns all the stored students.
C15_ListarPorSemestre ==
    [][Paso("listar_estudiantes")
       => LET filtro == last'.data
              pedidos == IF "semestre" \in DOMAIN filtro
                         THEN {i \in DOMAIN estudiante :
                                  estudiante[i].semestre = filtro["semestre"]}
                         ELSE DOMAIN estudiante
              res == last'.res
          IN /\ {res[k] : k \in DOMAIN res} = pedidos
             /\ Len(res) = Cardinality(pedidos)
             /\ \A j, k \in DOMAIN res : j < k => res[j] < res[k]]_vars

\* C16: validar_cedula accepts a string if and only if the string is 8 to 10
\* characters long and each of them is one of the ASCII digits 0..9; every
\* other string (one with a trailing newline or a non-ASCII digit included)
\* is rejected with the validation error.
C16_CedulaExacta ==
    last.op = "validar_cedula"
    => LET valor == last.data
           exacta == /\ Len(valor) >= 8
                     /\ Len(valor) <= 10
                     /\ \A i \in 1..Len(valor) :
                            valor[i] \in {"0", "1", "2", "3", "4", "5", "6", "7", "8", "9"}
       IN /\ last.res \in {"ok", "ValueError"}
          /\ last.res = "ok" <=> exacta

\* C13: a request to enroll a student or a course that is not stored is
\* answered with the not-found outcome, status 404, and no row of matricula
\* is created.
C13_MatricularNoEncontrado ==
    \A p \in Procs :
        (/\ req[p].pc = "done"
         /\ req[p].op = "matricular_estudiante"
         /\ (req[p].est \notin DOMAIN estudiante \/ req[p].cur \notin DOMAIN curso))
        => (/\ req[p].res = "False"
            /\ estado_http(req[p].op, req[p].res) = 404
            /\ CopiesIn(Fila(req[p].est, req[p].cur), matricula) = 0)

\* C14: the handler of a request calls the crud function once and does not
\* call itself, and the request ends with the response mapped from what the
\* crud function returned or raised: never with an uncaught error, and for a
\* POST of a well-formed student whose cedula is not stored, with 201 and the
\* student stored.
C14_HandlerTermina ==
    \A p \in Procs :
        /\ req[p].frames <= 1
        /\ req[p].pc = "done" =>
               /\ estado_http(req[p].op, req[p].res) # 500
               /\ (/\ req[p].op = "crear_estudiante"
                   /\ EstudianteValido(req[p].data)
                   /\ estado_http(req[p].op, req[p].res) # 400)
                  => (/\ estado_http(req[p].op, req[p].res) = 201
                      /\ \E i \in DOMAIN estudiante : estudiante[i] = req[p].data)

====
